---- MODULE Spec2Model ----
(***************************************************************************)
(* Annotation coverage of GO terms over protein-coding genes, as computed  *)
(* by notebooks/annotation_coverage.ipynb (cells 4 and 5).                 *)
(*                                                                         *)
(* Cell 4 walks lst, a list of (taxid, pcGeneID2nt) pairs, reads the       *)
(* GeneID2GOs association of each taxid out of the nested defaultdict      *)
(* taxid2asscs, and appends one NtCov record per organism to cov_data.     *)
(* Cell 5 prints one row per record.                                       *)
(*                                                                         *)
(* Modelling decisions:                                                    *)
(*  - a dict is a function whose DOMAIN is its key set; pcGeneID2nt is     *)
(*    kept as its key set only (the code reads keys() and len());          *)
(*  - the Python float 100.0*a/b is kept as the exact rational 100a/b in   *)
(*    lowest terms ([n, d]); the rounding of the IEEE quotient itself is   *)
(*    not modelled;                                                        *)
(*  - "for geneid in pcgene_w_gos" iterates a Python set: the order is     *)
(*    any order, so each step picks any gene not yet visited;              *)
(*  - an uncaught exception ends the run (pc = "raised").                  *)
(***************************************************************************)
EXTENDS Integers, Sequences, FiniteSets, TLC

VARIABLES
    taxid2asscs,        \* cell 2b: taxid -> (key -> (GeneID -> set of GO ids))
    lst,                \* cell 3: sequence of [taxid, pcGeneID2nt]
    cov_data,           \* cell 4: sequence of NtCov records
    pc,                 \* "loop" | "inner" | "rows" | "raised"
    i,                  \* position in lst of the organism being processed
    taxid,              \* loop variable of cell 4
    pcGeneID2nt,        \* loop variable of cell 4 (key set)
    geneid2gos,         \* local of cell 4
    pcgene_w_gos,       \* local of cell 4
    num_pcgene_w_gos,   \* local of cell 4
    num_pc_genes,       \* local of cell 4
    gos_pcgenes,        \* local of cell 4
    todo,               \* genes the inner for loop has not visited yet
    err,                \* "none", or the exception that ended the run
    out,                \* cell 5: the rows printed so far
    j                   \* position in cov_data of the next row to print

vars == <<taxid2asscs, lst, cov_data, pc, i, taxid, pcGeneID2nt, geneid2gos,
          pcgene_w_gos, num_pcgene_w_gos, num_pc_genes, gos_pcgenes, todo,
          err, out, j>>

-----------------------------------------------------------------------------
(* Bounds of the model.                                                    *)

NumTaxids == 2      \* organism ids 1..NumTaxids (single-organism runs)
MaxGene   == 3      \* GeneIDs 1..MaxGene (single-organism runs)
MaxTerm   == 2      \* GO ids 1..MaxTerm (single-organism runs)
RelGene   == 2      \* GeneIDs 1..RelGene (paired runs)
RelTerm   == 2      \* GO ids 1..RelTerm (paired runs)
MaxLst    == 3      \* organisms 1..MaxLst, each at most once in lst (list runs)
LstGene   == 1      \* GeneIDs 1..LstGene (list runs)

Taxids == 1..NumTaxids

EmptyMap == [g \in {} |-> {}]

\* Every dict with keys among K and values in V.
PartialMaps(K, V) == UNION {[D -> V] : D \in SUBSET K}

-----------------------------------------------------------------------------
(* The pieces of cell 4.                                                   *)

\* taxid2asscs after taxid2asscs[t]['GeneID2GOs'] was evaluated: both levels
\* are defaultdicts, so a missing key is inserted with its default value.
AsscsAfterGet(asscs, t) ==
    LET a1 == IF t \in DOMAIN asscs THEN asscs ELSE asscs @@ (t :> EmptyMap)
    IN  IF "GeneID2GOs" \in DOMAIN a1[t]
        THEN a1
        ELSE [a1 EXCEPT ![t] = @ @@ ("GeneID2GOs" :> EmptyMap)]

\* The value of taxid2asscs[t]['GeneID2GOs'].
GetGeneID2GOs(asscs, t) == AsscsAfterGet(asscs, t)[t]["GeneID2GOs"]

\* Faulty variant: the keys of geneid2gos, not restricted to protein-coding.
PcgeneWGos_NoIntersect(g2gos, pcgenes) == DOMAIN g2gos

\* set(geneid2gos.keys()).intersection(set(pcGeneID2nt.keys()))
PcgeneWGos(g2gos, pcgenes) == (DOMAIN g2gos) \cap pcgenes

\* Faulty variant: the inner loop visits every annotated gene.
LoopGenes_AllKeys(w_gos, g2gos) == DOMAIN g2gos

\* The set the inner for loop iterates: for geneid in pcgene_w_gos.
LoopGenes(w_gos, g2gos) == w_gos

\* Faulty variant: gos_pcgenes = geneid2gos[geneid] (assignment for |=).
Accumulate_Assign(gos, g2gos, geneid) == g2gos[geneid]

\* gos_pcgenes |= geneid2gos[geneid]
Accumulate(gos, g2gos, geneid) == gos \cup g2gos[geneid]

RECURSIVE GCD(_, _)
GCD(a, b) == IF b = 0 THEN a ELSE GCD(b, a % b)

\* Faulty variant: 100*num/den, the floor division of Python 2 integers.
Coverage_IntDiv(num, den) == [n |-> (100 * num) \div den, d |-> 1]

\* 100.0*num_pcgene_w_gos/num_pc_genes, for num_pc_genes # 0.
Coverage(num, den) ==
    LET g == GCD(100 * num, den)
    IN  [n |-> (100 * num) \div g, d |-> den \div g]

\* Faulty variant: num_covgenes and num_allgenes exchanged.
NtCov_Swapped(t, gos, ncov, cov, nall) ==
    [taxid |-> t, num_GOs |-> gos, num_covgenes |-> nall, coverage |-> cov,
     num_allgenes |-> ncov]

\* namedtuple("NtCov", "taxid num_GOs num_covgenes coverage num_allgenes")
NtCov(t, gos, ncov, cov, nall) ==
    [taxid |-> t, num_GOs |-> gos, num_covgenes |-> ncov, coverage |-> cov,
     num_allgenes |-> nall]

\* Faulty variant: cov_data.insert(0, nt).
CovAppend_Front(data, nt) == <<nt>> \o data

\* cov_data.append(nt)
CovAppend(data, nt) == Append(data, nt)

-----------------------------------------------------------------------------
(* The pieces of cell 5.                                                   *)

\* "{:,}": the decimal digits in groups of three, most significant first.
RECURSIVE Commas(_)
Commas(n) == IF n < 1000 THEN <<n>> ELSE Append(Commas(n \div 1000), n % 1000)

\* "{COV:2.0f}": the nearest integer, a tie going to the even one.
Round0(c) ==
    LET q == c.n \div c.d
        r == c.n % c.d
    IN  IF 2 * r < c.d THEN q
        ELSE IF 2 * r > c.d THEN q + 1
        ELSE IF q % 2 = 0 THEN q ELSE q + 1

\* fmtstr.format(TAXID=..., N=..., M=..., COV=..., TOT=...)
Row(nt) ==
    [TAXID |-> nt.taxid, N |-> Commas(nt.num_GOs), M |-> Commas(nt.num_covgenes),
     COV |-> Round0(nt.coverage), TOT |-> Commas(nt.num_allgenes)]

-----------------------------------------------------------------------------
(* Actions.                                                                *)

\* Lines 129-137: the next organism of lst; everything up to the inner loop.
LoopBody ==
    /\ pc = "loop"
    /\ i <= Len(lst)
    /\ LET t  == lst[i].taxid
           p  == lst[i].pcGeneID2nt
           g  == GetGeneID2GOs(taxid2asscs, t)
           w  == PcgeneWGos(g, p)
       IN  /\ taxid' = t
           /\ pcGeneID2nt' = p
           /\ taxid2asscs' = AsscsAfterGet(taxid2asscs, t)
           /\ geneid2gos' = g
           /\ pcgene_w_gos' = w
           /\ num_pcgene_w_gos' = Cardinality(w)
           /\ num_pc_genes' = Cardinality(p)
           /\ gos_pcgenes' = {}
           /\ todo' = LoopGenes(w, g)
    /\ pc' = "inner"
    /\ UNCHANGED <<lst, cov_data, i, err, out, j>>

\* Lines 138-139: one iteration of the inner loop.
InnerStep ==
    /\ pc = "inner"
    /\ \E geneid \in todo :
          /\ gos_pcgenes' = Accumulate(gos_pcgenes, geneid2gos, geneid)
          /\ todo' = todo \ {geneid}
    /\ UNCHANGED <<taxid2asscs, lst, cov_data, pc, i, taxid, pcGeneID2nt,
                   geneid2gos, pcgene_w_gos, num_pcgene_w_gos, num_pc_genes,
                   err, out, j>>

\* Lines 141-146, the division defined.
AppendRecord ==
    /\ pc = "inner"
    /\ todo = {}
    /\ num_pc_genes # 0
    /\ cov_data' = CovAppend(cov_data,
                      NtCov(taxid, Cardinality(gos_pcgenes), num_pcgene_w_gos,
                            Coverage(num_pcgene_w_gos, num_pc_genes),
                            num_pc_genes))
    /\ i' = i + 1
    /\ pc' = "loop"
    /\ UNCHANGED <<taxid2asscs, lst, taxid, pcGeneID2nt, geneid2gos,
                   pcgene_w_gos, num_pcgene_w_gos, num_pc_genes, gos_pcgenes,
                   todo, err, out, j>>

\* Faulty variant: the failure is swallowed and the loop goes on.
DivFail_Skip ==
    /\ pc = "inner"
    /\ todo = {}
    /\ num_pc_genes = 0
    /\ err' = "ZeroDivisionError"
    /\ i' = i + 1
    /\ pc' = "loop"
    /\ UNCHANGED <<taxid2asscs, lst, cov_data, taxid, pcGeneID2nt, geneid2gos,
                   pcgene_w_gos, num_pcgene_w_gos, num_pc_genes, gos_pcgenes,
                   todo, out, j>>

\* Line 145 with num_pc_genes = 0: the float division raises
\* ZeroDivisionError while the arguments of NtCov are evaluated; nothing is
\* appended, nothing catches it, and the run ends.
DivFail ==
    /\ pc = "inner"
    /\ todo = {}
    /\ num_pc_genes = 0
    /\ err' = "ZeroDivisionError"
    /\ pc' = "raised"
    /\ UNCHANGED <<taxid2asscs, lst, cov_data, i, taxid, pcGeneID2nt,
                   geneid2gos, pcgene_w_gos, num_pcgene_w_gos, num_pc_genes,
                   gos_pcgenes, todo, out, j>>

\* Lines 178-180: cell 4 ran to its end; cell 5 prints the two header lines.
PrintHeader ==
    /\ pc = "loop"
    /\ i > Len(lst)
    /\ pc' = "rows"
    /\ j' = 1
    /\ UNCHANGED <<taxid2asscs, lst, cov_data, i, taxid, pcGeneID2nt,
                   geneid2gos, pcgene_w_gos, num_pcgene_w_gos, num_pc_genes,
                   gos_pcgenes, todo, err, out>>

\* Lines 181-187: one row.
PrintRow ==
    /\ pc = "rows"
    /\ j <= Len(cov_data)
    /\ out' = Append(out, Row(cov_data[j]))
    /\ j' = j + 1
    /\ UNCHANGED <<taxid2asscs, lst, cov_data, pc, i, taxid, pcGeneID2nt,
                   geneid2gos, pcgene_w_gos, num_pcgene_w_gos, num_pc_genes,
                   gos_pcgenes, todo, err>>

Next ==
    \/ LoopBody
    \/ InnerStep
    \/ AppendRecord
    \/ DivFail
    \/ PrintHeader
    \/ PrintRow

-----------------------------------------------------------------------------
(* Initial states.                                                         *)

\* Line 127 and the state of a kernel that has run cells 1-3.
Start ==
    /\ cov_data = <<>>
    /\ pc = "loop"
    /\ i = 1
    /\ taxid = 0
    /\ pcGeneID2nt = {}
    /\ geneid2gos = EmptyMap
    /\ pcgene_w_gos = {}
    /\ num_pcgene_w_gos = 0
    /\ num_pc_genes = 0
    /\ gos_pcgenes = {}
    /\ todo = {}
    /\ err = "none"
    /\ out = <<>>
    /\ j = 0

\* What read_ncbi_gene2go leaves for one loaded taxid.
Loaded(m) == [GeneID2GOs |-> m]

\* One organism; its taxid loaded with any association, or not loaded.
Init ==
    /\ Start
    /\ \E t \in Taxids, p \in SUBSET (1..MaxGene) :
          lst = <<[taxid |-> t, pcGeneID2nt |-> p]>>
    /\ \/ taxid2asscs = EmptyMap
       \/ \E m \in PartialMaps(1..MaxGene, SUBSET (1..MaxTerm)) :
             taxid2asscs = (lst[1].taxid :> Loaded(m))

Spec == Init /\ [][Next]_vars

\* Two organisms with the same protein-coding set: the same organism twice,
\* or two organisms of which the second has the annotation map of the first
\* extended by one gene g -> T.
InitRel ==
    /\ Start
    /\ \E t1, t2 \in Taxids, p \in SUBSET (1..RelGene) :
          lst = <<[taxid |-> t1, pcGeneID2nt |-> p],
                  [taxid |-> t2, pcGeneID2nt |-> p]>>
    /\ \E m \in PartialMaps(1..RelGene, SUBSET (1..RelTerm)) :
          IF lst[1].taxid = lst[2].taxid
          THEN \/ taxid2asscs = EmptyMap
               \/ taxid2asscs = (lst[1].taxid :> Loaded(m))
          ELSE \E g \in (1..RelGene) \ DOMAIN m, T \in SUBSET (1..RelTerm) :
                  taxid2asscs = (lst[1].taxid :> Loaded(m))
                                @@ (lst[2].taxid :> Loaded(m @@ (g :> T)))

SpecRel == InitRel /\ [][Next]_vars

\* Sequences over S without repetition.
InjectiveSeqs(S) ==
    {q \in UNION {[1..n -> S] : n \in 0..Cardinality(S)} :
        \A a, b \in DOMAIN q : q[a] = q[b] => a = b}

\* The association of an organism of the list runs: gene g carries term g.
LstMap == [g \in 1..LstGene |-> {g}]

\* Any list of distinct organisms out of 1..MaxLst, each with any
\* protein-coding set (the empty one included); each organism loaded or not.
InitList ==
    /\ Start
    /\ \E q \in InjectiveSeqs(1..MaxLst) :
          \E ps \in [DOMAIN q -> SUBSET (1..LstGene)] :
             lst = [k \in DOMAIN q |-> [taxid |-> q[k], pcGeneID2nt |-> ps[k]]]
    /\ \E L \in SUBSET (1..MaxLst) :
          taxid2asscs = [t \in L |-> Loaded(LstMap)]

SpecList == InitList /\ [][Next]_vars

-----------------------------------------------------------------------------
(* What the records are compared with: the statistics written as set       *)
(* expressions over the inputs of organism k.                              *)

\* The annotation map of taxid t as taxid2asscs holds it (none: empty).
AnnotationMap(t) ==
    IF t \in DOMAIN taxid2asscs /\ "GeneID2GOs" \in DOMAIN taxid2asscs[t]
    THEN taxid2asscs[t]["GeneID2GOs"]
    ELSE EmptyMap

MapOf(k) == AnnotationMap(lst[k].taxid)
PcOf(k)  == lst[k].pcGeneID2nt
Covered(k) == (DOMAIN MapOf(k)) \cap PcOf(k)
TermsOf(k) == UNION {MapOf(k)[g] : g \in Covered(k)}

\* Rationals [n, d] with d > 0.
RatLeq(a, b) == a.n * b.d <= b.n * a.d
Hundred == [n |-> 100, d |-> 1]

\* The organisms whose record is in cov_data.
Recorded == 1..Len(cov_data)

C2_NumTerms ==
    \A k \in Recorded :
        /\ cov_data[k].num_GOs = Cardinality(TermsOf(k))
        /\ DOMAIN MapOf(k) = {} =>
              cov_data[k].num_GOs = 0 /\ cov_data[k].num_covgenes = 0

\* Two covered genes share a term, and an annotated gene outside the
\* protein-coding set carries a term that no covered gene carries.
C2_Witness ==
    /\ Len(cov_data) = 1
    /\ \E g1, g2 \in Covered(1) : g1 # g2 /\ MapOf(1)[g1] \cap MapOf(1)[g2] # {}
    /\ \E g3 \in (DOMAIN MapOf(1)) \ PcOf(1) : MapOf(1)[g3] \ TermsOf(1) # {}
    /\ cov_data[1].num_GOs = 1

\* C3: with an empty protein-coding set the computation fails with an
\* explicit input error raised by a guard, not with the arithmetic fault of
\* the division, and no record is produced for that organism.
C3_GuardedInputError ==
    /\ err \in {"none", "InputError"}
    /\ \A k \in Recorded : PcOf(k) # {}

\* C5: every record has 0 <= coverage <= 100 and num_covered <= num_total,
\* and num_covered = num_total, as coverage = 100, holds exactly when every
\* protein-coding gene is a key of the annotation map.
C5_Range ==
    \A k \in Recorded :
        /\ cov_data[k].coverage.n >= 0
        /\ RatLeq(cov_data[k].coverage, Hundred)
        /\ cov_data[k].num_covgenes <= cov_data[k].num_allgenes
        /\ cov_data[k].num_covgenes = cov_data[k].num_allgenes
              <=> PcOf(k) \subseteq DOMAIN MapOf(k)
        /\ cov_data[k].coverage = Hundred
              <=> PcOf(k) \subseteq DOMAIN MapOf(k)

\* Full coverage of two protein-coding genes, a third annotated gene apart.
C5_Witness ==
    /\ Len(cov_data) = 1
    /\ cov_data[1].coverage = Hundred
    /\ cov_data[1].num_allgenes = 2
    /\ (DOMAIN MapOf(1)) \ PcOf(1) # {}

\* Map mb is map ma with the one gene g added.
Extends(mb, ma, g) ==
    /\ g \notin DOMAIN ma
    /\ DOMAIN mb = (DOMAIN ma) \cup {g}
    /\ \A x \in DOMAIN ma : mb[x] = ma[x]

\* C4 (exclusion): two records computed with the same protein-coding set,
\* the second with the annotation map extended by g -> T for a gene g
\* outside the protein-coding set, agree on num_covered, num_terms,
\* coverage and num_total.
C4_Exclusion ==
    \A a, b \in Recorded : \A g \in DOMAIN MapOf(b) :
        (PcOf(a) = PcOf(b) /\ Extends(MapOf(b), MapOf(a), g) /\ g \notin PcOf(a))
        => /\ cov_data[b].num_covgenes = cov_data[a].num_covgenes
           /\ cov_data[b].num_GOs = cov_data[a].num_GOs
           /\ cov_data[b].coverage = cov_data[a].coverage
           /\ cov_data[b].num_allgenes = cov_data[a].num_allgenes

\* Both records are there; the added gene is outside the protein-coding set
\* and carries a term that no other gene carries; a covered gene exists.
C4_Witness ==
    /\ Len(cov_data) = 2
    /\ Covered(1) # {}
    /\ \E g \in DOMAIN MapOf(2) :
          /\ Extends(MapOf(2), MapOf(1), g)
          /\ g \notin PcOf(1)
          /\ MapOf(2)[g] \ UNION {MapOf(1)[x] : x \in DOMAIN MapOf(1)} # {}

\* C6 (monotonicity): two records computed with the same protein-coding
\* set, the second with the annotation map extended by g -> T for a
\* protein-coding gene g that was not a key: num_covered, num_terms and
\* coverage of the second are each >= those of the first.
C6_Monotone ==
    \A a, b \in Recorded : \A g \in DOMAIN MapOf(b) :
        (PcOf(a) = PcOf(b) /\ Extends(MapOf(b), MapOf(a), g) /\ g \in PcOf(a))
        => /\ cov_data[b].num_covgenes >= cov_data[a].num_covgenes
           /\ cov_data[b].num_GOs >= cov_data[a].num_GOs
           /\ RatLeq(cov_data[a].coverage, cov_data[b].coverage)

\* Both records are there; the added protein-coding gene has an empty term
\* set and the genes covered before carry terms.
C6_Witness ==
    /\ Len(cov_data) = 2
    /\ cov_data[1].num_GOs > 0
    /\ \E g \in DOMAIN MapOf(2) :
          /\ Extends(MapOf(2), MapOf(1), g)
          /\ g \in PcOf(1)
          /\ MapOf(2)[g] = {}

\* C9 (determinism): two records computed for the same organism id, with
\* the same association mapping and the same protein-coding set, are equal
\* in all five fields, whatever the order in which the covered genes were
\* visited.
C9_Deterministic ==
    \A a, b \in Recorded : lst[a] = lst[b] => cov_data[a] = cov_data[b]

\* The same organism computed twice, with two covered genes whose term sets
\* differ, so that the order of the visits could matter.
C9_Witness ==
    /\ Len(cov_data) = 2
    /\ lst[1] = lst[2]
    /\ \E g1, g2 \in Covered(1) :
          /\ MapOf(1)[g1] \ MapOf(1)[g2] # {}
          /\ MapOf(1)[g2] \ MapOf(1)[g1] # {}

\* C7: computing the records changes neither the association mapping (its
\* organism keys, each organism's gene keys, each gene's term set) nor the
\* list of protein-coding sets, also for an organism id that has no entry
\* in the association mapping.
C7_InputsUnchanged == [][taxid2asscs' = taxid2asscs /\ lst' = lst]_vars

\* C8: records are produced and reported in caller order: record k carries
\* the organism id of input k, a run over n organisms with non-empty
\* protein-coding sets leaves n records, and the report prints the rows of
\* the records in that order, one row per record.
C8_CallerOrder ==
    /\ \A k \in Recorded : k <= Len(lst) /\ cov_data[k].taxid = lst[k].taxid
    /\ (\A k \in 1..Len(lst) : PcOf(k) # {}) /\ pc = "rows"
          => Len(cov_data) = Len(lst)
    /\ Len(out) <= Len(cov_data)
    /\ \A k \in 1..Len(out) : out[k].TAXID = lst[k].taxid
    /\ pc = "rows" /\ j > Len(cov_data) => Len(out) = Len(cov_data)

\* Three organisms, not in the order of their ids, all reported.
C8_Witness ==
    /\ pc = "rows"
    /\ Len(lst) = 3
    /\ Len(out) = 3
    /\ lst[1].taxid > lst[2].taxid

\* The record of organism k written from the inputs.
IsRecordOf(r, k) ==
    /\ r.taxid = lst[k].taxid
    /\ r.num_GOs = Cardinality(TermsOf(k))
    /\ r.num_covgenes = Cardinality(Covered(k))
    /\ r.num_allgenes = Cardinality(PcOf(k))
    /\ r.coverage.d > 0
    /\ r.coverage.n * Cardinality(PcOf(k))
          = 100 * Cardinality(Covered(k)) * r.coverage.d

\* The first position of lst whose protein-coding set is empty.
IsFirstEmpty(k) ==
    /\ k \in 1..Len(lst)
    /\ PcOf(k) = {}
    /\ \A m \in 1..(k - 1) : PcOf(m) # {}

\* C10: when the division fails at position k, the loop stops there:
\* cov_data holds exactly the records of the positions before k, in input
\* order and each correct, and no record is ever produced for position k or
\* a later one; nothing but an empty protein-coding set makes it fail.
C10_StopsAtFailure ==
    /\ \A k \in Recorded : k <= Len(lst) /\ IsRecordOf(cov_data[k], k)
    /\ \A k \in 1..Len(lst) : IsFirstEmpty(k) => Len(cov_data) < k
    /\ err # "none" =>
          /\ pc = "raised"
          /\ IsFirstEmpty(i)
          /\ Len(cov_data) = i - 1
          /\ out = <<>>

\* The second of three organisms failed; the first has its record and the
\* third, with a non-empty protein-coding set, has none.
C10_Witness ==
    /\ err # "none"
    /\ Len(lst) = 3
    /\ Len(cov_data) = 1
    /\ PcOf(3) # {}

====
